---- MODULE Spec2Model ----
(***************************************************************************)
(* Model of the research-agent pipeline: Executor (plan validation and     *)
(* fail-fast step execution over an ExecutionLog) and Verifier (rule-based *)
(* coverage plus the audit verdict, with the abstention decision) in Spec; *)
(* LLMClient.generate (the retry loop) with Planner.plan and               *)
(* Synthesizer.synthesize reading its string in SpecLLM.                   *)
(*                                                                         *)
(* Abstractions: free text (descriptions, goals, prompts) and timestamps   *)
(* are left out; a step's `inputs` list is kept as the set of its          *)
(* elements, the code only testing membership of each element              *)
(* (validate_plan) or keying a dict by it (execute_step), with None and [] *)
(* both being the empty set (`if step.inputs:`); artifacts are kept by     *)
(* their class and the code path that built them.                          *)
(***************************************************************************)
EXTENDS Integers, Sequences, FiniteSets, TLC

\* ---------------------------------------------------------------- bounds
\* the longest plan, the largest step id, and the longest log an Executor
\* that is run again and again may accumulate
MaxSteps == 2
MaxId == 2
MaxLog == 3

\* ---------------------------------------------------------------- schema
\* Python's None, for the optional fields
None == "None"

\* schema.py ExecutionMode
ExecutionMode == {"normal", "stress_test"}

\* schema.py ResearchStep.type : Literal["research", "compare", "synthesize"]
StepTypes == {"research", "compare", "synthesize"}

\* schema.py ResearchStep (id, type, inputs)
ResearchStep == [id : 1..MaxId, type : StepTypes, inputs : SUBSET (1..MaxId)]

\* schema.py ResearchPlan.steps : an ordered list of steps, here of at most
\* n steps
PlansUpTo(n) == UNION {[1..k -> ResearchStep] : k \in 0..n}

ResearchPlan == PlansUpTo(MaxSteps)

\* the value of `output` when no artifact is given (output=None)
NoOutput == [kind |-> "None", variant |-> "None", confidence |-> "None"]

\* tools.py execute_research, stress mode: random.choice([...])
FailureTypes == {"partial", "contradictory", "empty"}

\* what llm_client.generate hands back to execute_compare: a document that
\* ComparisonOutput(**data) accepts, or anything else (unparseable text, the
\* "{}" that generate returns on a provider failure, missing fields)
CompareResponses == {"valid", "invalid"}

\* ------------------------------------------------------------- tools.py
\* execute_research: never calls the LLM; canned artifacts in stress mode
execute_research(mode, failure_type) ==
    IF mode = "stress_test"
    THEN [kind |-> "ResearchOutput", variant |-> failure_type, confidence |-> "low"]
    ELSE [kind |-> "ResearchOutput", variant |-> "simulated", confidence |-> "medium"]

\* execute_compare without the stress-mode return: the LLM is asked in
\* either mode
execute_compare_no_stress(mode, response) ==
    IF response = "valid"
    THEN [kind |-> "ComparisonOutput", variant |-> "llm", confidence |-> None]
    ELSE [kind |-> "ComparisonOutput", variant |-> "error", confidence |-> None]

\* whether the tool reaches llm_client.generate: execute_research never does,
\* execute_compare does unless it returns in its stress-mode branch
generate_called(tool, mode) ==
    tool = "execute_compare" /\ mode # "stress_test"

\* execute_compare: fixed artifact in stress mode; otherwise the parsed LLM
\* document, or the fallback ComparisonOutput built in the except branch
execute_compare(mode, response) ==
    IF mode = "stress_test"
    THEN [kind |-> "ComparisonOutput", variant |-> "ambiguous", confidence |-> None]
    ELSE IF response = "valid"
         THEN [kind |-> "ComparisonOutput", variant |-> "llm", confidence |-> None]
         ELSE [kind |-> "ComparisonOutput", variant |-> "error", confidence |-> None]

\* ----------------------------------------------------------- executor.py
\* ExecutionLog.__init__
NewExecutionLog == [log |-> <<>>, artifacts |-> <<>>]

\* Python truthiness of `output` (None is falsy; a pydantic model and the
\* non-empty string "Synthesis Marker" are truthy)
Truthy(output) == output.kind # "None"

\* add_entry without `if output:`: the artifact map gets an entry for the step
\* whatever was passed as output
add_entry_always_store(el, step_id, status, output, error) ==
    LET entry == [step_id |-> step_id,
                  status  |-> status,
                  output  |-> IF status = "success" THEN output ELSE NoOutput,
                  error   |-> error]
    IN [log       |-> Append(el.log, entry),
        artifacts |-> [i \in (DOMAIN el.artifacts) \cup {step_id} |->
                          IF i = step_id THEN output ELSE el.artifacts[i]]]

\* ExecutionLog.add_entry
add_entry(el, step_id, status, output, error) ==
    LET entry == [step_id |-> step_id,
                  status  |-> status,
                  output  |-> IF status = "success" THEN output ELSE NoOutput,
                  error   |-> error]
    IN [log       |-> Append(el.log, entry),
        artifacts |-> IF Truthy(output)
                      THEN [i \in (DOMAIN el.artifacts) \cup {step_id} |->
                               IF i = step_id THEN output ELSE el.artifacts[i]]
                      ELSE el.artifacts]

\* validate_scan with the step's own id added to seen_ids before its inputs
\* are looked up, so that a step may name itself
RECURSIVE validate_scan_self(_, _, _)
validate_scan_self(steps, i, seen_ids) ==
    IF i > Len(steps) THEN TRUE
    ELSE IF steps[i].id \in seen_ids THEN FALSE
    ELSE IF \E input_id \in steps[i].inputs : input_id \notin seen_ids \cup {steps[i].id} THEN FALSE
    ELSE validate_scan_self(steps, i + 1, seen_ids \cup {steps[i].id})

\* Executor.validate_plan: the left-to-right scan from position i with the
\* ids seen so far
RECURSIVE validate_scan(_, _, _)
validate_scan(steps, i, seen_ids) ==
    IF i > Len(steps) THEN TRUE
    ELSE IF steps[i].id \in seen_ids THEN FALSE
    ELSE IF \E input_id \in steps[i].inputs : input_id \notin seen_ids THEN FALSE
    ELSE validate_scan(steps, i + 1, seen_ids \cup {steps[i].id})

validate_plan(steps) == validate_scan(steps, 1, {})

\* the collection without the isinstance test: every declared input that has
\* an artifact
items_to_compare_any(el, step) ==
    {input_id \in step.inputs : input_id \in DOMAIN el.artifacts}

\* execute_step, compare branch: the declared inputs whose artifact is a
\* ResearchOutput (artifacts.get(input_id) then isinstance)
items_to_compare(el, step) ==
    {input_id \in step.inputs :
        /\ input_id \in DOMAIN el.artifacts
        /\ el.artifacts[input_id].kind = "ResearchOutput"}

\* Executor.execute_step: the log after the step, the returned flag, the
\* tool the step called (None when it called none), and whether that tool
\* called the LLM
execute_step(el, step, mode, failure_type, response) ==
    IF step.type = "research"
    THEN [el |-> add_entry(el, step.id, "success",
                           execute_research(mode, failure_type), None),
          ok |-> TRUE, tool |-> "execute_research",
          llm |-> generate_called("execute_research", mode)]
    ELSE IF step.type = "compare"
    THEN IF items_to_compare(el, step) = {}
         THEN [el |-> add_entry(el, step.id, "error", NoOutput, "ValueError: no valid ResearchOutput input"),
               ok |-> FALSE, tool |-> None, llm |-> FALSE]
         ELSE [el |-> add_entry(el, step.id, "success",
                                execute_compare(mode, response), None),
               ok |-> TRUE, tool |-> "execute_compare",
               llm |-> generate_called("execute_compare", mode)]
    ELSE IF step.type = "synthesize"
    THEN [el |-> add_entry(el, step.id, "success",
                           [kind |-> "str", variant |-> "Synthesis Marker", confidence |-> None], None),
          ok |-> TRUE, tool |-> None, llm |-> FALSE]
    ELSE [el |-> add_entry(el, step.id, "error", NoOutput, "ValueError: unknown step type"),
          ok |-> FALSE, tool |-> None, llm |-> FALSE]

\* ----------------------------------------------------------- verifier.py
\* The audit response handed back by self.llm.generate.  body: free text, a
\* JSON document that is not an object, or a JSON object; fence: no markdown
\* fence, a ```json ... ``` fence, or a bare ``` ... ``` fence.  Each of the
\* four keys verify reads is absent or carries a value of the kind named
\* ("null" is JSON null, "other" a string outside the Literal).
AuditVerdicts ==
    [body : {"object"}, fence : {"none"},
     recommend_abstain    : {"absent", "true", "false"},
     abstain_reason       : {"absent", "null", "str"},
     overclaim_detected   : {"true", "false", "null"},
     confidence_adjustment: {"none", "downgrade", "other"}]

\* responses carrying none of the keys, in every body and fence
AuditBare ==
    [body : {"text", "array", "object"}, fence : {"none", "json", "bare"},
     recommend_abstain : {"absent"}, abstain_reason : {"absent"},
     overclaim_detected : {"absent"}, confidence_adjustment : {"absent"}]

AuditResponses == AuditVerdicts \cup AuditBare

\* LLMClient.generate's value after a provider failure: "{}"
EmptyObject ==
    [body |-> "object", fence |-> "none", recommend_abstain |-> "absent",
     abstain_reason |-> "absent", overclaim_detected |-> "absent",
     confidence_adjustment |-> "absent"]

\* fence stripping then json.loads: "```json" is cut from the front and "```"
\* from the back, so a bare fence leaves its opening "```" in the text and
\* json.loads raises, as it does on free text
json_loads_ok(response) ==
    /\ response.body # "text"
    /\ response.fence # "bare"

\* data.get(...) raises AttributeError on a JSON value that is not an object
data_get_ok(response) == response.body = "object"

\* a VerificationOutput that takes any value for its fields
output_validates_any(response) == TRUE

\* VerificationOutput(...) validation: overclaim_detected : bool and
\* confidence_adjustment : Literal["none", "downgrade"], each taken from
\* data.get(key, default)
output_validates(response) ==
    /\ response.overclaim_detected \in {"absent", "true", "false"}
    /\ response.confidence_adjustment \in {"absent", "none", "downgrade"}

\* the reason strings
ReasonDefault  == "Verifier recommended abstention due to content analysis."
ReasonAudit    == "<abstain_reason given by the audit>"
ReasonMajority == "Critical execution failure: Majority of research steps failed."
ReasonNoSteps  == "Total execution failure: No steps completed."
ReasonVerificationFailed == "Verification process failed: <exception>"

\* executed_ids = set(log['step_id'] for log in execution_log.log if log['status'] == 'success')
executed_ids(el) ==
    {el.log[k].step_id : k \in {j \in 1..Len(el.log) : el.log[j].status = "success"}}

\* coverage = {}; for step in plan.steps: coverage[step.id] = step.id in executed_ids
coverage_of(steps, el) ==
    [i \in {steps[k].id : k \in 1..Len(steps)} |-> i \in executed_ids(el)]

\* coverage_fail_count = list(coverage.values()).count(False)
coverage_fail_count(coverage) ==
    Cardinality({i \in DOMAIN coverage : ~coverage[i]})

\* the comparison without the division by two
critical_failure_no_half(steps, coverage) ==
    coverage_fail_count(coverage) > Len(steps)

\* critical_failure = coverage_fail_count > (len(plan.steps) / 2)
critical_failure(steps, coverage) ==
    2 * coverage_fail_count(coverage) > Len(steps)

\* the except branch returning an empty coverage map
fail_closed_no_coverage(coverage) ==
    [status |-> "fail", final_outcome |-> "abstained",
     abstention_reason |-> ReasonVerificationFailed,
     coverage_check |-> <<>>,
     overclaim_detected |-> TRUE,
     confidence_adjustment |-> "downgrade"]

\* the except branch of verify
fail_closed(coverage) ==
    [status |-> "fail", final_outcome |-> "abstained",
     abstention_reason |-> ReasonVerificationFailed,
     coverage_check |-> coverage,
     overclaim_detected |-> TRUE,
     confidence_adjustment |-> "downgrade"]

\* data.get("abstain_reason", <default>): the default only when the key is
\* absent; a key carrying JSON null gives None
abstain_reason_of(data) ==
    CASE data.abstain_reason = "absent" -> ReasonDefault
      [] data.abstain_reason = "null"   -> None
      [] OTHER                          -> ReasonAudit

\* the chain whose first branch leaves status at its initial "pass"
abstention_keeps_pass(steps, el, coverage, data) ==
    IF data.recommend_abstain = "true"
    THEN [final_outcome |-> "abstained", abstention_reason |-> abstain_reason_of(data),
          status |-> "pass"]
    ELSE IF critical_failure(steps, coverage)
    THEN [final_outcome |-> "abstained", abstention_reason |-> ReasonMajority,
          status |-> "fail"]
    ELSE IF executed_ids(el) = {}
    THEN [final_outcome |-> "abstained", abstention_reason |-> ReasonNoSteps,
          status |-> "fail"]
    ELSE [final_outcome |-> "answered", abstention_reason |-> None,
          status |-> "pass"]

\* the chain reduced to its first branch: only the audit can abstain
abstention_audit_only(steps, el, coverage, data) ==
    IF data.recommend_abstain = "true"
    THEN [final_outcome |-> "abstained", abstention_reason |-> abstain_reason_of(data),
          status |-> "warn"]
    ELSE [final_outcome |-> "answered", abstention_reason |-> None,
          status |-> "pass"]

\* the chain without its last elif (`elif not executed_ids`)
abstention_no_third_rule(steps, el, coverage, data) ==
    IF data.recommend_abstain = "true"
    THEN [final_outcome |-> "abstained", abstention_reason |-> abstain_reason_of(data),
          status |-> "warn"]
    ELSE IF critical_failure(steps, coverage)
    THEN [final_outcome |-> "abstained", abstention_reason |-> ReasonMajority,
          status |-> "fail"]
    ELSE [final_outcome |-> "answered", abstention_reason |-> None,
          status |-> "pass"]

\* the if / elif / elif chain of the abstention logic; the last row is the
\* initial assignment (ANSWERED, None, "pass") left untouched
abstention(steps, el, coverage, data) ==
    IF data.recommend_abstain = "true"
    THEN [final_outcome |-> "abstained", abstention_reason |-> abstain_reason_of(data),
          status |-> "warn"]
    ELSE IF critical_failure(steps, coverage)
    THEN [final_outcome |-> "abstained", abstention_reason |-> ReasonMajority,
          status |-> "fail"]
    ELSE IF executed_ids(el) = {}
    THEN [final_outcome |-> "abstained", abstention_reason |-> ReasonNoSteps,
          status |-> "fail"]
    ELSE [final_outcome |-> "answered", abstention_reason |-> None,
          status |-> "pass"]

\* the downgrade without its `not all_covered` disjunct
downgrade_status_no_coverage(a, coverage, data) ==
    IF /\ a.final_outcome = "answered"
       /\ \/ data.overclaim_detected = "true"
          \/ data.confidence_adjustment = "downgrade"
    THEN "warn"
    ELSE a.status

\* "Downgrade logic if not abstaining"
downgrade_status(a, coverage, data) ==
    IF /\ a.final_outcome = "answered"
       /\ \/ data.overclaim_detected = "true"
          \/ ~(\A i \in DOMAIN coverage : coverage[i])
          \/ data.confidence_adjustment = "downgrade"
    THEN "warn"
    ELSE a.status

\* the try branch of verify, for a response that json.loads turns into a dict
\* and whose fields VerificationOutput accepts
decide(steps, el, coverage, data) ==
    LET a == abstention(steps, el, coverage, data)
    IN [status |-> downgrade_status(a, coverage, data),
        final_outcome |-> a.final_outcome,
        abstention_reason |-> a.abstention_reason,
        coverage_check |-> coverage,
        overclaim_detected |-> (data.overclaim_detected = "true"),
        confidence_adjustment |->
            IF data.confidence_adjustment = "downgrade" THEN "downgrade" ELSE "none"]

\* Verifier.verify
verify(steps, el, response) ==
    LET coverage == coverage_of(steps, el)
    IN IF json_loads_ok(response) /\ data_get_ok(response) /\ output_validates(response)
       THEN decide(steps, el, coverage, response)
       ELSE fail_closed(coverage)

\* the value of `verification` before verify has returned
NoVerification ==
    [status |-> None, final_outcome |-> None, abstention_reason |-> None,
     coverage_check |-> <<>>, overclaim_detected |-> FALSE,
     confidence_adjustment |-> None]

\* the value of `audit` before verify has been called
NoAudit ==
    [body |-> None, fence |-> None, recommend_abstain |-> None,
     abstain_reason |-> None, overclaim_detected |-> None,
     confidence_adjustment |-> None]

\* -------------------------------------------------------------- utils.py
\* LLMClient.provider after __init__ ("auto" is resolved there, and a client
\* that fails to initialise becomes "mock")
Providers == {"google", "openai", "mock"}

\* generate: max_retries = 3, base_delay = 2
max_retries == 3
base_delay == 2

\* what one provider attempt does: it returns the text, or raises an
\* exception whose message carries "429", "Quota exceeded", "Rate limit", or
\* none of the three
Outcomes ==
    {"success", "error_429", "error_quota_exceeded", "error_rate_limit", "error_other"}

\* the test on str(e) that treats every error as a rate-limit error
is_rate_limit_any(provider, outcome) == outcome # "success"

\* the test on str(e) of the google branch and of the openai branch
is_rate_limit(provider, outcome) ==
    IF provider = "google"
    THEN outcome \in {"error_429", "error_quota_exceeded"}
    ELSE outcome \in {"error_429", "error_rate_limit"}

\* wait_time = base_delay * (2 ** attempt)
wait_time(attempt) == base_delay * (2 ^ attempt)

\* the loop body with an except clause that catches rate-limit errors only,
\* any other exception leaving generate
attempt_result_no_catch(provider, attempt, outcome) ==
    IF outcome = "success" THEN "return_text"
    ELSE IF is_rate_limit(provider, outcome)
         THEN IF attempt < max_retries - 1 THEN "sleep_continue" ELSE "return_empty"
         ELSE "raise"

\* one pass through the loop body of generate: `return response.text`, or in
\* the except clause sleep and `continue`, or `return "{}"`
attempt_result(provider, attempt, outcome) ==
    IF outcome = "success" THEN "return_text"
    ELSE IF is_rate_limit(provider, outcome) /\ attempt < max_retries - 1
         THEN "sleep_continue"
         ELSE "return_empty"

\* ------------------------------------------------------ the LLM documents
\* The longest supported_by list
MaxTokens == 3

\* An element of a supported_by list as json.loads builds it: an int, a
\* bool, a str (kept as the sequence of its characters), or a float
IntToken(n) == [t |-> "int", n |-> n, s |-> <<>>]
BoolToken == [t |-> "bool", n |-> 1, s |-> <<>>]
StrToken(s) == [t |-> "str", n |-> 0, s |-> s]
FloatToken == [t |-> "float", n |-> 0, s |-> <<>>]

\* the strings "Step_3", "x", "a1b2" and "1" followed by a superscript two
StrSamples ==
    {<<"S", "t", "e", "p", "_", "3">>, <<"x">>, <<"a", "1", "b", "2">>, <<"1", "SUPERSCRIPT_TWO">>}

Tokens ==
    {IntToken(1), IntToken(3), BoolToken, FloatToken} \cup {StrToken(s) : s \in StrSamples}

TokenLists == UNION {[1..k -> Tokens] : k \in 0..MaxTokens}

\* A value of the supported_by object: a list of tokens, a string, an object
\* (iterating it gives its keys, here the one key "7"), a number or null
SbValues ==
    {[vtype |-> "list", items |-> l, s |-> <<>>] : l \in TokenLists}
    \cup {[vtype |-> "str", items |-> <<>>, s |-> s] : s \in StrSamples}
    \cup {[vtype |-> "object", items |-> <<StrToken(<<"7">>)>>, s |-> <<>>]}
    \cup {[vtype |-> v, items |-> <<>>, s |-> <<>>] : v \in {"int", "null"}}

\* a dict without keys
EmptyDict == [h \in {} |-> <<>>]

\* the "supported_by" key of a document: absent, null, an array, or an
\* object with no key or the one key "H1"
SbAbsent == [shape |-> "absent", hyps |-> EmptyDict]

SupportedBy ==
    {[shape |-> sh, hyps |-> EmptyDict] : sh \in {"absent", "null", "array", "object"}}
    \cup {[shape |-> "object", hyps |-> [h \in {"H1"} |-> v]] : v \in SbValues}

\* What a provider may hand back.  body and fence as for the audit response;
\* schema names the document whose keys the object carries ("none": an object
\* with none of them); fields_ok tells whether the keys other than `steps`,
\* `supported_by` and `confidence` are present with values pydantic accepts.
BareDocs ==
    [body : {"text", "array", "object"}, fence : {"none", "json", "bare"},
     schema : {"none"}, fields_ok : {FALSE}, steps : {<<>>},
     supported_by : {SbAbsent}, confidence : {None}]

PlanDocs ==
    [body : {"object"}, fence : {"none", "json"},
     schema : {"plan"}, fields_ok : BOOLEAN, steps : ResearchPlan,
     supported_by : {SbAbsent}, confidence : {None}]

SynthesisDocs ==
    [body : {"object"}, fence : {"none"},
     schema : {"synthesis"}, fields_ok : BOOLEAN, steps : {<<>>},
     supported_by : SupportedBy, confidence : {"low", "medium", "high"}]

ProviderDocs == BareDocs \cup PlanDocs \cup SynthesisDocs

\* generate's `return "{}"`
FailureValue ==
    [body |-> "object", fence |-> "none", schema |-> "none", fields_ok |-> FALSE,
     steps |-> <<>>, supported_by |-> SbAbsent, confidence |-> None]

\* _mock_response: a plan of a research step 1 and a synthesize step 2 over it
MockResponse ==
    [body |-> "object", fence |-> "none", schema |-> "plan", fields_ok |-> TRUE,
     steps |-> <<[id |-> 1, type |-> "research", inputs |-> {}],
                 [id |-> 2, type |-> "synthesize", inputs |-> {1}]>>,
     supported_by |-> SbAbsent, confidence |-> None]

\* the value of `llm_result` before generate has returned
NoDoc ==
    [body |-> None, fence |-> None, schema |-> None, fields_ok |-> FALSE,
     steps |-> <<>>, supported_by |-> SbAbsent, confidence |-> None]

\* ------------------------------------------------------------ planner.py
\* the value of `planner_out` before plan has returned
NotPlanned == [returned |-> "nothing", steps |-> <<>>]

\* Planner.plan after generate: fence stripping, json.loads,
\* ResearchPlan(**data); None from both except clauses
plan_of(doc) ==
    IF /\ json_loads_ok(doc)
       /\ doc.body = "object"
       /\ doc.schema = "plan"
       /\ doc.fields_ok
    THEN [returned |-> "plan", steps |-> doc.steps]
    ELSE [returned |-> "None", steps |-> <<>>]

\* -------------------------------------------------------- synthesizer.py
\* isinstance(i, int): bool is a subclass of int
isinstance_int(i) == i.t \in {"int", "bool"}

\* isinstance(i, str)
isinstance_str(i) == i.t = "str"

\* the characters int() reads as decimal digits
DecimalDigits == {"0", "1", "2", "3", "7"}

\* str.isdigit: true of the decimal digits and of a superscript two as well
isdigit(c) == c \in DecimalDigits \cup {"SUPERSCRIPT_TWO"}

\* int(digit_str) raises ValueError unless every character is a decimal digit
int_ok(digit_str) == \A k \in 1..Len(digit_str) : digit_str[k] \in DecimalDigits

digit_value(c) ==
    CASE c = "0" -> 0 [] c = "1" -> 1 [] c = "2" -> 2 [] c = "3" -> 3 [] c = "7" -> 7

\* int(digit_str) in base ten
RECURSIVE int_of(_)
int_of(digit_str) ==
    IF digit_str = <<>> THEN 0
    ELSE 10 * int_of(SubSeq(digit_str, 1, Len(digit_str) - 1))
         + digit_value(digit_str[Len(digit_str)])

\* the loop body that keeps ints and drops every str
clean_token_ints_only(i) ==
    IF isinstance_int(i) THEN <<i>> ELSE <<>>

\* the body of `for i in ids`: what the token appends to cleaned_ids
clean_token(i) ==
    IF isinstance_int(i) THEN <<i>>
    ELSE IF isinstance_str(i)
    THEN LET digit_str == SelectSeq(i.s, isdigit)
         IN IF digit_str # <<>> /\ int_ok(digit_str)
            THEN <<IntToken(int_of(digit_str))>>
            ELSE <<>>
    ELSE <<>>

\* `for i in ids`: cleaned_ids after the tokens from position k on
RECURSIVE clean_ids(_, _, _)
clean_ids(ids, k, cleaned_ids) ==
    IF k > Len(ids) THEN cleaned_ids
    ELSE clean_ids(ids, k + 1, cleaned_ids \o clean_token(ids[k]))

\* Python can iterate a list, a str and a dict; `for i in ids` raises
\* TypeError on a number and on None
iterable(value) == value.vtype \in {"list", "str", "object"}

\* the tokens `for i in ids` goes through: the elements of a list, the
\* one-character strings of a str, the keys of a dict
iterate(value) ==
    IF value.vtype = "str"
    THEN [k \in 1..Len(value.s) |-> StrToken(<<value.s[k]>>)]
    ELSE value.items

\* `if "supported_by" in data`
has_supported_by(doc) ==
    doc.schema = "synthesis" /\ doc.supported_by.shape # "absent"

\* the cleaning raises: .items() on null or on an array, or a value that
\* cannot be iterated
cleaning_raises(doc) ==
    \/ doc.supported_by.shape # "object"
    \/ \E h \in DOMAIN doc.supported_by.hyps : ~iterable(doc.supported_by.hyps[h])

\* cleaned_supported_by
cleaned_supported_by(doc) ==
    [h \in DOMAIN doc.supported_by.hyps |->
        clean_ids(iterate(doc.supported_by.hyps[h]), 1, <<>>)]

\* SynthesisOutput(**data): every field required, confidence in
\* Literal["low", "medium"]
synthesis_validates(doc) ==
    /\ doc.schema = "synthesis"
    /\ doc.fields_ok
    /\ doc.supported_by.shape # "absent"
    /\ doc.confidence \in {"low", "medium"}

\* the SynthesisOutput of the except clause
DegradedSynthesis ==
    [directional_summary |-> "Failed to synthesize results.",
     hypotheses |-> <<>>,
     supported_by |-> EmptyDict,
     open_questions |-> <<"System Error during synthesis">>,
     confidence |-> "low"]

\* the value of `synthesis` before synthesize has returned
NoSynthesis ==
    [directional_summary |-> None, hypotheses |-> <<>>, supported_by |-> EmptyDict,
     open_questions |-> <<>>, confidence |-> None]

\* the value of `cleaned` when the cleaning has not run to its end
NotCleaned == [done |-> FALSE, map |-> EmptyDict]

\* data["supported_by"] after the cleaning block, when the block is reached
\* and runs to its end
cleaning_of(doc) ==
    IF /\ json_loads_ok(doc)
       /\ doc.body = "object"
       /\ has_supported_by(doc)
       /\ ~cleaning_raises(doc)
    THEN [done |-> TRUE, map |-> cleaned_supported_by(doc)]
    ELSE NotCleaned

\* Synthesizer.synthesize after generate: the try block (a JSON array has no
\* "supported_by" member and SynthesisOutput(**data) raises TypeError on it)
\* and the except clause; List[int] validation turns a bool into its int
synthesize(doc) ==
    IF /\ json_loads_ok(doc)
       /\ doc.body = "object"
       /\ ~(has_supported_by(doc) /\ cleaning_raises(doc))
       /\ synthesis_validates(doc)
    THEN [directional_summary |-> "<directional_summary>",
          hypotheses |-> <<"<hypothesis>">>,
          supported_by |->
              [h \in DOMAIN doc.supported_by.hyps |->
                  LET ids == cleaned_supported_by(doc)[h]
                  IN [k \in 1..Len(ids) |-> ids[k].n]],
          open_questions |-> <<"<open question>">>,
          confidence |-> doc.confidence]
    ELSE DegradedSynthesis

\* ------------------------------------------------------------ the system
VARIABLES
    mode,           \* Executor.mode
    execution_log,  \* Executor.execution_log (one per Executor)
    plan,           \* the steps of the plan of the current run call
    pc,             \* "idle", "running" (inside run's loop), "returned", "verified"
    idx,            \* position in plan.steps of the step run's loop takes next
    log_before,     \* execution_log as it was when the current run call began
    audit,          \* the audit response the last verify call received
    verification,   \* the VerificationOutput the last verify call returned
    tool_called,    \* the tool the last execute_step call invoked, or None
    llm_called,     \* whether that tool called llm_client.generate
    provider,       \* LLMClient.provider
    caller,         \* the component inside whose call generate runs, or None
    attempt,        \* generate's loop variable
    outcomes,       \* what each provider attempt of the generate call did
    waits,          \* the time.sleep calls of the generate call, in seconds
    gen_pc,         \* "idle", "calling" (inside generate's loop), "returned"
                    \* (generate has returned), "raised", "done" (the caller
                    \* has returned)
    llm_result,     \* the string generate returned
    planner_out,    \* what Planner.plan returned
    cleaned,        \* data["supported_by"] after synthesize's cleaning block
    synthesis       \* the SynthesisOutput Synthesizer.synthesize returned

exec_vars ==
    <<mode, execution_log, plan, pc, idx, log_before, audit, verification,
      tool_called, llm_called>>

llm_vars ==
    <<provider, caller, attempt, outcomes, waits, gen_pc, llm_result,
      planner_out, cleaned, synthesis>>

vars == <<exec_vars, llm_vars>>

\* Executor.__init__
ExecutorInit ==
    /\ mode = "normal"
    /\ execution_log = NewExecutionLog
    /\ plan = <<>>
    /\ pc = "idle"
    /\ idx = 1
    /\ log_before = NewExecutionLog
    /\ audit = NoAudit
    /\ verification = NoVerification
    /\ tool_called = None
    /\ llm_called = FALSE

\* an LLMClient on which generate has not been called
ClientIdle ==
    /\ caller = None
    /\ attempt = 0
    /\ outcomes = <<>>
    /\ waits = <<>>
    /\ gen_pc = "idle"
    /\ llm_result = NoDoc
    /\ planner_out = NotPlanned
    /\ cleaned = NotCleaned
    /\ synthesis = NoSynthesis

\* the Executor and Verifier, their LLM calls taken by what they hand back
\* (CompareResponses, AuditResponses)
Init ==
    /\ ExecutorInit
    /\ provider = "google"
    /\ ClientIdle

\* Executor.run up to the loop, without validate_plan's early return
run_begin_no_validate(p) ==
    /\ plan' = p
    /\ log_before' = execution_log
    /\ idx' = 1
    /\ pc' = IF Len(p) > 0 THEN "running" ELSE "returned"
    /\ audit' = NoAudit
    /\ verification' = NoVerification
    /\ tool_called' = None
    /\ llm_called' = FALSE
    /\ UNCHANGED <<mode, execution_log>>

\* Executor.run up to the loop, on a plan p: validate_plan, and the early
\* return
run_begin(p) ==
    /\ plan' = p
    /\ log_before' = execution_log
    /\ idx' = 1
    /\ pc' = IF validate_plan(p) /\ Len(p) > 0 THEN "running" ELSE "returned"
    /\ audit' = NoAudit
    /\ verification' = NoVerification
    /\ tool_called' = None
    /\ llm_called' = FALSE
    /\ UNCHANGED <<mode, execution_log>>

\* a call of Executor.run, on a new Executor or on one whose earlier run has
\* returned
StartRun ==
    /\ pc \in {"idle", "returned"}
    /\ \E p \in ResearchPlan :
          /\ Len(execution_log.log) + Len(p) <= MaxLog
          /\ run_begin(p)
    /\ UNCHANGED llm_vars

\* the loop iteration without the `break`: a failed step is followed by the
\* next one
ExecuteStep_no_break ==
    /\ pc = "running"
    /\ \E failure_type \in FailureTypes, response \in CompareResponses :
          LET r == execute_step(execution_log, plan[idx], mode, failure_type, response)
          IN /\ execution_log' = r.el
             /\ tool_called' = r.tool
             /\ llm_called' = r.llm
             /\ pc' = IF idx < Len(plan) THEN "running" ELSE "returned"
             /\ idx' = IF idx < Len(plan) THEN idx + 1 ELSE idx
    /\ UNCHANGED <<mode, plan, log_before, audit, verification>>
    /\ UNCHANGED llm_vars

\* one iteration of run's loop: execute_step, break on failure, return after
\* the last step
ExecuteStep ==
    /\ pc = "running"
    /\ \E failure_type \in FailureTypes, response \in CompareResponses :
          LET r == execute_step(execution_log, plan[idx], mode, failure_type, response)
          IN /\ execution_log' = r.el
             /\ tool_called' = r.tool
             /\ llm_called' = r.llm
             /\ pc' = IF r.ok /\ idx < Len(plan) THEN "running" ELSE "returned"
             /\ idx' = IF r.ok /\ idx < Len(plan) THEN idx + 1 ELSE idx
    /\ UNCHANGED <<mode, plan, log_before, audit, verification>>
    /\ UNCHANGED llm_vars

\* a call of Verifier.verify on the plan and the log run returned
Verify ==
    /\ pc = "returned"
    /\ \E response \in AuditResponses :
          /\ audit' = response
          /\ verification' = verify(plan, execution_log, response)
    /\ pc' = "verified"
    /\ UNCHANGED <<mode, execution_log, plan, idx, log_before, tool_called, llm_called>>
    /\ UNCHANGED llm_vars

\* the caller drops the VerificationOutput; verify changed nothing else, so
\* the Executor is where run left it
Discard ==
    /\ pc = "verified"
    /\ pc' = "returned"
    /\ audit' = NoAudit
    /\ verification' = NoVerification
    /\ UNCHANGED <<mode, execution_log, plan, idx, log_before, tool_called, llm_called>>
    /\ UNCHANGED llm_vars

Next ==
    \/ StartRun
    \/ ExecuteStep
    \/ Verify
    \/ Discard

Spec == Init /\ [][Next]_vars

\* ------------------------------------------------------- stress mode
\* an Executor on which set_mode(ExecutionMode.STRESS_TEST) has been called
\* before its first run
InitStress ==
    /\ mode = "stress_test"
    /\ execution_log = NewExecutionLog
    /\ plan = <<>>
    /\ pc = "idle"
    /\ idx = 1
    /\ log_before = NewExecutionLog
    /\ audit = NoAudit
    /\ verification = NoVerification
    /\ tool_called = None
    /\ llm_called = FALSE
    /\ provider = "google"
    /\ ClientIdle

\* the calls of run and the iterations of its loop
NextRun ==
    \/ StartRun
    \/ ExecuteStep

SpecStress == InitStress /\ [][NextRun]_vars

\* --------------------------------------------- execute_step on its own
\* what an id maps to in the artifact map of an Executor that has run before:
\* nothing, or the artifact of a research, compare or synthesize step
ArtifactKinds == {"absent", "research", "compare", "synthesize"}

\* the artifact a successful step of the kind leaves (normal mode)
artifact_of(kind) ==
    IF kind = "research" THEN execute_research("normal", "partial")
    ELSE IF kind = "compare" THEN execute_compare("normal", "valid")
    ELSE [kind |-> "str", variant |-> "Synthesis Marker", confidence |-> None]

\* the log of an Executor whose earlier steps i, i + 1, ..., MaxId succeeded
\* with the kinds given (add_entry once per step that ran)
RECURSIVE log_after(_, _, _)
log_after(kinds, i, el) ==
    IF i > MaxId THEN el
    ELSE IF kinds[i] = "absent" THEN log_after(kinds, i + 1, el)
    ELSE log_after(kinds, i + 1,
                   add_entry(el, i, "success", artifact_of(kinds[i]), None))

\* Executor.execute_step is about to be called with one step, on an Executor
\* whose log earlier successful steps have filled
InitStep ==
    /\ mode = "normal"
    /\ \E kinds \in [1..MaxId -> ArtifactKinds], step \in ResearchStep :
          /\ execution_log = log_after(kinds, 1, NewExecutionLog)
          /\ plan = <<step>>
    /\ log_before = execution_log
    /\ pc = "running"
    /\ idx = 1
    /\ audit = NoAudit
    /\ verification = NoVerification
    /\ tool_called = None
    /\ llm_called = FALSE
    /\ provider = "google"
    /\ ClientIdle

SpecStep == InitStep /\ [][ExecuteStep]_vars

\* ------------------------------------- the LLM client and its two callers
\* the components whose use of generate's string is followed here
Callers == {"planner", "synthesizer"}

\* an LLMClient of any provider, before Planner.plan or
\* Synthesizer.synthesize is called
InitLLM ==
    /\ ExecutorInit
    /\ provider \in Providers
    /\ ClientIdle

\* Planner.plan or Synthesizer.synthesize is called and calls generate; the
\* mock branch returns _mock_response at once
Call ==
    /\ gen_pc = "idle"
    /\ \E c \in Callers : caller' = c
    /\ attempt' = 0
    /\ IF provider = "mock"
       THEN gen_pc' = "returned" /\ llm_result' = MockResponse
       ELSE gen_pc' = "calling" /\ llm_result' = NoDoc
    /\ UNCHANGED <<provider, outcomes, waits, planner_out, cleaned, synthesis>>
    /\ UNCHANGED exec_vars

\* one iteration of `for attempt in range(max_retries)` in the google or the
\* openai branch: the provider call and what the loop body does with it
Attempt ==
    /\ gen_pc = "calling"
    /\ attempt < max_retries
    /\ \E outcome \in Outcomes :
          LET r == attempt_result(provider, attempt, outcome)
          IN /\ outcomes' = Append(outcomes, outcome)
             /\ IF r = "return_text"
                THEN /\ \E doc \in ProviderDocs : llm_result' = doc
                     /\ gen_pc' = "returned"
                     /\ UNCHANGED <<attempt, waits>>
                ELSE IF r = "sleep_continue"
                THEN /\ waits' = Append(waits, wait_time(attempt))
                     /\ attempt' = attempt + 1
                     /\ UNCHANGED <<gen_pc, llm_result>>
                ELSE IF r = "return_empty"
                THEN /\ llm_result' = FailureValue
                     /\ gen_pc' = "returned"
                     /\ UNCHANGED <<attempt, waits>>
                ELSE /\ gen_pc' = "raised"
                     /\ UNCHANGED <<attempt, waits, llm_result>>
    /\ UNCHANGED <<provider, caller, planner_out, cleaned, synthesis>>
    /\ UNCHANGED exec_vars

\* Planner.plan from generate's return to its own
PlannerPlan ==
    /\ gen_pc = "returned"
    /\ caller = "planner"
    /\ planner_out' = plan_of(llm_result)
    /\ gen_pc' = "done"
    /\ UNCHANGED <<provider, caller, attempt, outcomes, waits, llm_result, cleaned, synthesis>>
    /\ UNCHANGED exec_vars

\* Synthesizer.synthesize from generate's return to its own
Synthesize ==
    /\ gen_pc = "returned"
    /\ caller = "synthesizer"
    /\ cleaned' = cleaning_of(llm_result)
    /\ synthesis' = synthesize(llm_result)
    /\ gen_pc' = "done"
    /\ UNCHANGED <<provider, caller, attempt, outcomes, waits, llm_result, planner_out>>
    /\ UNCHANGED exec_vars

NextLLM ==
    \/ Call
    \/ Attempt
    \/ PlannerPlan
    \/ Synthesize

SpecLLM == InitLLM /\ [][NextLLM]_vars

\* generate's loop is not left waiting: a call under way makes its next
\* attempt, and the caller goes on once generate has returned
FairSpecLLM == SpecLLM /\ WF_vars(NextLLM)

\* ------------------------------------------------------------ the claims
\* step ids are pairwise distinct
PairwiseDistinct(steps) ==
    \A i, j \in 1..Len(steps) : i # j => steps[i].id # steps[j].id

\* every id listed in a step's inputs is the id of a strictly earlier step
InputsEarlier(steps) ==
    \A i \in 1..Len(steps) : \A x \in steps[i].inputs :
        \E k \in 1..(i - 1) : steps[k].id = x

\* run has been called on the current plan
RunCalled == pc \in {"running", "returned", "verified"}

\* C1: validate_plan accepts a plan if and only if its step ids are pairwise
\* distinct and every input id is the id of a strictly earlier step; run
\* enters its loop only for an accepted plan.
C1_ValidateIff ==
    RunCalled =>
        /\ validate_plan(plan) <=> (PairwiseDistinct(plan) /\ InputsEarlier(plan))
        /\ (pc = "running" => PairwiseDistinct(plan) /\ InputsEarlier(plan))
        /\ (~(PairwiseDistinct(plan) /\ InputsEarlier(plan)) => pc # "running")

\* C1 witness: run returned at once on a two-step plan with distinct ids whose
\* second step names itself as its input.
C1_Witness ==
    /\ pc = "returned"
    /\ Len(plan) = 2
    /\ PairwiseDistinct(plan)
    /\ plan[1].inputs = {}
    /\ plan[2].inputs = {plan[2].id}
    /\ ~validate_plan(plan)
    /\ execution_log = log_before
\* the current run call began on a new Executor, with a plan that
\* validate_plan accepts, and has returned
FreshValidRunReturned ==
    /\ pc \in {"returned", "verified"}
    /\ log_before = NewExecutionLog
    /\ validate_plan(plan)

\* some record of the log has status ERROR
SomeStepFailed ==
    \E k \in 1..Len(execution_log.log) : execution_log.log[k].status = "error"

\* C2: after a validated plan has run on a fresh Executor and a step failed,
\* with N the position of the failed step: the log holds exactly N records,
\* the k-th being that of the plan's k-th step, SUCCESS for k < N and ERROR
\* for k = N, and verify's coverage is false for the steps at positions N to
\* the end.
C2_FailFast ==
    (FreshValidRunReturned /\ SomeStepFailed) =>
        LET log == execution_log.log
            N   == Len(log)
        IN /\ N <= Len(plan)
           /\ \A k \in 1..N :
                 /\ log[k].step_id = plan[k].id
                 /\ log[k].status = (IF k < N THEN "success" ELSE "error")
           /\ pc = "verified" =>
                 \A k \in N..Len(plan) :
                    /\ plan[k].id \in DOMAIN verification.coverage_check
                    /\ ~verification.coverage_check[plan[k].id]

\* C2 witness: a validated two-step plan run on a fresh Executor whose first
\* step failed; the second step has no record and neither step is covered.
C2_Witness ==
    /\ pc = "verified"
    /\ log_before = NewExecutionLog
    /\ validate_plan(plan)
    /\ Len(plan) = 2
    /\ Len(execution_log.log) = 1
    /\ execution_log.log[1].status = "error"
    /\ ~verification.coverage_check[plan[1].id]
    /\ ~verification.coverage_check[plan[2].id]
\* the ids of the plan's steps
StepIds(steps) == {steps[k].id : k \in 1..Len(steps)}

\* the log holds a SUCCESS record for step id i
HasSuccess(i) ==
    \E k \in 1..Len(execution_log.log) :
        /\ execution_log.log[k].step_id = i
        /\ execution_log.log[k].status = "success"

\* the number of planned steps (positions of plan.steps) whose coverage is
\* false in the returned map
UncoveredSteps ==
    Cardinality({k \in 1..Len(plan) : ~verification.coverage_check[plan[k].id]})

\* the audit response is valid structured output: a JSON object, bare or in a
\* ```json fence, whose overclaim_detected is a boolean and whose
\* confidence_adjustment is "none" or "downgrade" where they are given
ValidVerdict ==
    /\ audit.body = "object"
    /\ audit.fence \in {"none", "json"}
    /\ audit.overclaim_detected \in {"absent", "true", "false"}
    /\ audit.confidence_adjustment \in {"absent", "none", "downgrade"}

\* C3 as stated: the coverage map has as many entries as the plan has steps.
C3_Original ==
    pc = "verified" =>
        Cardinality(DOMAIN verification.coverage_check) = Len(plan)

\* C3 amended: on both return paths of verify the coverage map has exactly one
\* entry per distinct step id of the plan, so its size is the number of
\* distinct step ids; it equals the number of steps whenever the step ids are
\* pairwise distinct, as in every plan validate_plan accepts.
C3_CoverageSize ==
    pc = "verified" =>
        /\ DOMAIN verification.coverage_check = StepIds(plan)
        /\ PairwiseDistinct(plan) =>
              Cardinality(DOMAIN verification.coverage_check) = Len(plan)
        /\ validate_plan(plan) =>
              Cardinality(DOMAIN verification.coverage_check) = Len(plan)

\* C3 witness: verify returned through the fail-closed path on a rejected
\* two-step plan that repeats a step id; the map has one entry.
C3_Witness ==
    /\ pc = "verified"
    /\ ~ValidVerdict
    /\ Len(plan) = 2
    /\ plan[1].id = plan[2].id
    /\ Cardinality(DOMAIN verification.coverage_check) = 1

\* C4 as stated: when more than half of the planned steps have coverage
\* false, the outcome is ABSTAINED whatever the audit response.
C4_MajorityAbstains ==
    (pc = "verified" /\ 2 * UncoveredSteps > Len(plan)) =>
        verification.final_outcome = "abstained"

\* C5 as stated: when the log holds no SUCCESS record, the outcome is
\* ABSTAINED with status FAIL.
C5_Original ==
    (pc = "verified" /\ executed_ids(execution_log) = {}) =>
        /\ verification.final_outcome = "abstained"
        /\ verification.status = "fail"

\* C5 amended: when the log holds no SUCCESS record, the outcome is ABSTAINED
\* for every plan and audit response; the status is WARN when the audit is a
\* valid verdict that recommends abstention, and FAIL in every other case.
C5_NoSuccessAbstains ==
    (pc = "verified" /\ \A k \in 1..Len(execution_log.log) :
                            execution_log.log[k].status # "success") =>
        /\ verification.final_outcome = "abstained"
        /\ verification.status =
              (IF ValidVerdict /\ audit.recommend_abstain = "true"
               THEN "warn" ELSE "fail")

\* C5 witness: no step succeeded and the audit recommends abstention; verify
\* returned ABSTAINED with status WARN.
C5_Witness ==
    /\ pc = "verified"
    /\ Len(plan) > 0
    /\ Len(execution_log.log) > 0
    /\ executed_ids(execution_log) = {}
    /\ ValidVerdict
    /\ audit.recommend_abstain = "true"
    /\ verification.final_outcome = "abstained"
    /\ verification.status = "warn"
\* the number of planned steps (positions of plan.steps) whose id has no
\* SUCCESS record in the log
LackingSteps ==
    Cardinality({k \in 1..Len(plan) : ~HasSuccess(plan[k].id)})

\* C6: when the audit response is not valid structured output, verify returns
\* status FAIL, outcome ABSTAINED, the verification-failure reason, overclaim
\* true and DOWNGRADE, with the rule-based coverage map (one entry per step
\* id, true iff the id has a SUCCESS record); the status is never PASS.
C6_FailClosed ==
    (pc = "verified" /\ ~ValidVerdict) =>
        /\ verification.status = "fail"
        /\ verification.status # "pass"
        /\ verification.final_outcome = "abstained"
        /\ verification.abstention_reason = ReasonVerificationFailed
        /\ verification.overclaim_detected = TRUE
        /\ verification.confidence_adjustment = "downgrade"
        /\ DOMAIN verification.coverage_check = StepIds(plan)
        /\ \A i \in StepIds(plan) : verification.coverage_check[i] <=> HasSuccess(i)

\* C6 witness: every step of a two-step plan succeeded and the audit response
\* is free text; verify returned FAIL / ABSTAINED with both steps covered.
C6_Witness ==
    /\ pc = "verified"
    /\ audit.body = "text"
    /\ Len(plan) = 2
    /\ LackingSteps = 0
    /\ verification.status = "fail"
    /\ verification.final_outcome = "abstained"
    /\ \A i \in StepIds(plan) : verification.coverage_check[i]

\* C7 as stated: when a valid audit verdict recommends abstention, verify
\* returns ABSTAINED with status WARN, and the reason is the one the audit
\* gives when it gives one and the generic default otherwise.
C7_AuditAbstention ==
    (pc = "verified" /\ ValidVerdict /\ audit.recommend_abstain = "true") =>
        /\ verification.final_outcome = "abstained"
        /\ verification.status = "warn"
        /\ verification.abstention_reason =
              (IF audit.abstain_reason = "str" THEN ReasonAudit ELSE ReasonDefault)

C9_Precedence ==
    (pc = "verified" /\ ValidVerdict /\ audit.recommend_abstain # "true") =>
        /\ 2 * LackingSteps > Len(plan) =>
              /\ verification.final_outcome = "abstained"
              /\ verification.status = "fail"
              /\ verification.abstention_reason = ReasonMajority
        /\ 2 * LackingSteps = Len(plan) =>
              verification.abstention_reason # ReasonMajority

\* C10 as stated: every VerificationOutput whose outcome is ABSTAINED carries
\* a non-null abstention reason.
C10_ReasonGiven ==
    (pc = "verified" /\ verification.final_outcome = "abstained") =>
        verification.abstention_reason # None

\* C11 as stated: after any sequence of run calls on the same Executor, the
\* log the last call returned holds the records and artifacts of that call's
\* steps only: its k-th record is that of the plan's k-th step, and every key
\* of the artifact map is a step id of the plan.
C11_FreshLogPerRun ==
    pc \in {"returned", "verified"} =>
        /\ Len(execution_log.log) <= Len(plan)
        /\ \A k \in 1..Len(execution_log.log) :
              execution_log.log[k].step_id = plan[k].id
        /\ DOMAIN execution_log.artifacts \subseteq StepIds(plan)

\* C13: when validate_plan rejects the plan, run never enters its loop and
\* calls no tool, and the log it returns (records and artifacts) is the one
\* the Executor had before the call.
C13_RejectedPlanUntouched ==
    (RunCalled /\ ~validate_plan(plan)) =>
        /\ pc # "running"
        /\ tool_called = None
        /\ execution_log.log = log_before.log
        /\ execution_log.artifacts = log_before.artifacts

\* C13 witness: run returned on a rejected two-step plan whose first step
\* alone would be accepted, on an Executor that holds a record and an
\* artifact from an earlier run; the log is as it was.
C13_Witness ==
    /\ pc = "returned"
    /\ Len(plan) = 2
    /\ validate_plan(SubSeq(plan, 1, 1))
    /\ ~validate_plan(plan)
    /\ Len(log_before.log) > 0
    /\ DOMAIN log_before.artifacts # {}
    /\ execution_log = log_before

\* the record carries the ComparisonOutput that execute_compare builds in
\* its except clause, i.e. the comparing collaborator gave an error (generate
\* then returns "{}") or a response that does not parse into a
\* ComparisonOutput
CollaboratorFailed(rec) ==
    /\ rec.output.kind = "ComparisonOutput"
    /\ rec.output.variant = "error"

\* C14 as stated: a COMPARE step whose comparing collaborator errs or
\* returns an unparseable response is recorded with status ERROR and is the
\* last record of the log, no later step being executed.
C14_CompareFailureHalts ==
    \A k \in 1..Len(execution_log.log) :
        CollaboratorFailed(execution_log.log[k]) =>
            /\ execution_log.log[k].status = "error"
            /\ k = Len(execution_log.log)

\* Planner.plan has returned
PlannerReturned == gen_pc = "done" /\ caller = "planner"

\* C12 as stated: Planner.plan returns None or a plan that validate_plan
\* accepts, with pairwise distinct step ids and every input id naming an
\* earlier step.
C12_PlannerPlanValid ==
    (PlannerReturned /\ planner_out.returned = "plan") =>
        /\ validate_plan(planner_out.steps)
        /\ PairwiseDistinct(planner_out.steps)
        /\ InputsEarlier(planner_out.steps)

\* Synthesizer.synthesize has returned
SynthesizerReturned == gen_pc = "done" /\ caller = "synthesizer"

\* the string token has a decimal digit among its characters
HasDecimalDigit(tk) ==
    tk.t = "str" /\ \E k \in 1..Len(tk.s) : tk.s[k] \in DecimalDigits

\* the integer formed from the decimal digits of the string token
DigitsInteger(tk) ==
    IntToken(int_of(SelectSeq(tk.s, LAMBDA c : c \in DecimalDigits)))

\* the token is an integer (a JSON boolean counts, as it does in Python)
IsIntegerToken(tk) == tk.t \in {"int", "bool"}

\* the cleaning of C15 as stated
KeptAsStated(tk) == IsIntegerToken(tk) \/ HasDecimalDigit(tk)

ExpectedAsStated(ids) ==
    LET kept == SelectSeq(ids, KeptAsStated)
    IN [k \in 1..Len(kept) |->
           IF IsIntegerToken(kept[k]) THEN kept[k] ELSE DigitsInteger(kept[k])]

\* the string token has a character that str.isdigit accepts and int() does
\* not read (a superscript digit)
HasUnreadableDigit(tk) ==
    tk.t = "str" /\ \E k \in 1..Len(tk.s) : isdigit(tk.s[k]) /\ tk.s[k] \notin DecimalDigits

\* the cleaning of C15 as amended
KeptAmended(tk) ==
    IsIntegerToken(tk) \/ (HasDecimalDigit(tk) /\ ~HasUnreadableDigit(tk))

ExpectedAmended(ids) ==
    LET kept == SelectSeq(ids, KeptAmended)
    IN [k \in 1..Len(kept) |->
           IF IsIntegerToken(kept[k]) THEN kept[k] ELSE DigitsInteger(kept[k])]

\* the tokens the cleaning went through for hypothesis h
TokensOf(h) == iterate(llm_result.supported_by.hyps[h])

\* C15 as stated: the cleaning maps every list of tokens to a list of
\* integers in the original order, integer tokens unchanged, every string
\* token containing digits replaced by the integer formed from its digits,
\* every other token dropped; cleaning a cleaned map changes nothing.
C15_Original ==
    (SynthesizerReturned /\ cleaned.done) =>
        \A h \in DOMAIN cleaned.map :
            /\ cleaned.map[h] = ExpectedAsStated(TokensOf(h))
            /\ \A k \in 1..Len(cleaned.map[h]) : IsIntegerToken(cleaned.map[h][k])
            /\ clean_ids(cleaned.map[h], 1, <<>>) = cleaned.map[h]

\* C15 amended: the cleaning maps every list of tokens to a list of integers
\* in the original order, integer tokens (JSON booleans included) unchanged,
\* every string token that contains decimal digits and no other digit
\* character replaced by the integer formed from its decimal digits, every
\* other token dropped (a string with a superscript digit among them);
\* cleaning a cleaned map changes nothing.
C15_CleaningCoerces ==
    (SynthesizerReturned /\ cleaned.done) =>
        /\ DOMAIN cleaned.map = DOMAIN llm_result.supported_by.hyps
        /\ \A h \in DOMAIN cleaned.map :
              /\ cleaned.map[h] = ExpectedAmended(TokensOf(h))
              /\ \A k \in 1..Len(cleaned.map[h]) : IsIntegerToken(cleaned.map[h][k])
              /\ clean_ids(cleaned.map[h], 1, <<>>) = cleaned.map[h]

\* C15 witness: {"H1": [1, "Step_3", "x"]} has been cleaned to {"H1": [1, 3]}.
C15_Witness ==
    /\ SynthesizerReturned
    /\ cleaned.done
    /\ DOMAIN llm_result.supported_by.hyps = {"H1"}
    /\ llm_result.supported_by.hyps["H1"].vtype = "list"
    /\ llm_result.supported_by.hyps["H1"].items =
          <<IntToken(1), StrToken(<<"S", "t", "e", "p", "_", "3">>), StrToken(<<"x">>)>>
    /\ cleaned.map["H1"] = <<IntToken(1), IntToken(3)>>

\* a string generate can return: a provider's text, "{}", or the mock plan
ReturnedString ==
    llm_result \in ProviderDocs \cup {FailureValue, MockResponse}

\* the state of a generate call in which nothing was raised, at most
\* max_retries provider attempts were made (none by the mock provider), the
\* loop variable counts the retries, and what was returned is a string
GenerateBounded ==
    /\ gen_pc # "raised"
    /\ Len(outcomes) <= max_retries
    /\ provider = "mock" => outcomes = <<>>
    /\ gen_pc = "calling" => attempt = Len(outcomes) /\ attempt < max_retries
    /\ gen_pc \in {"returned", "done"} => ReturnedString

\* C16: for every provider and every sequence of provider outcomes, generate
\* makes at most 3 provider attempts, raises nothing, and every call that has
\* entered the loop returns a string.
C16_GenerateTerminates ==
    /\ [](GenerateBounded)
    /\ (gen_pc = "calling") ~> (gen_pc \in {"returned", "done"} /\ ReturnedString)

\* C16 witness: three attempts each met a rate-limit error and generate
\* returned "{}".
C16_Witness ==
    /\ gen_pc = "returned"
    /\ Len(outcomes) = 3
    /\ \A k \in 1..3 : outcomes[k] = "error_429"
    /\ llm_result = FailureValue

\* the outcome is an error whose message names a rate limit
RateLimitError(outcome) ==
    outcome \in {"error_429", "error_quota_exceeded", "error_rate_limit"}

\* C17: every attempt that is followed by another attempt failed with a
\* rate-limit error, so a success or another error ends the call on that
\* attempt; there is one wait per retry, the wait that follows attempt k
\* being 2 * 2^k seconds, and only attempts 0 and 1 are followed by one.
C17_RetryOnlyOnRateLimit ==
    /\ \A k \in 1..(Len(outcomes) - 1) : RateLimitError(outcomes[k])
    /\ gen_pc = "calling" => \A k \in 1..Len(outcomes) : RateLimitError(outcomes[k])
    /\ gen_pc = "calling" => Len(waits) = Len(outcomes)
    /\ (gen_pc \in {"returned", "done"} /\ provider # "mock") =>
          Len(waits) = Len(outcomes) - 1
    /\ Len(waits) <= 2
    /\ \A k \in 0..(Len(waits) - 1) : waits[k + 1] = 2 * (2 ^ k)

\* C17 witness: two rate-limit errors, each followed by a retry after 2 and
\* then 4 seconds, and a third attempt that succeeded.
C17_Witness ==
    /\ gen_pc = "returned"
    /\ outcomes = <<"error_429", "error_429", "success">>
    /\ waits = <<2, 4>>
    /\ llm_result \in ProviderDocs

\* the response is a valid SynthesisOutput document: it parses into an
\* object that carries every field, with confidence "low" or "medium" and
\* supported_by an object whose every value is a list
ValidSynthesisDoc(doc) ==
    /\ json_loads_ok(doc)
    /\ doc.body = "object"
    /\ doc.schema = "synthesis"
    /\ doc.fields_ok
    /\ doc.confidence \in {"low", "medium"}
    /\ doc.supported_by.shape = "object"
    /\ \A h \in DOMAIN doc.supported_by.hyps : doc.supported_by.hyps[h].vtype = "list"

\* C18 as stated: for every response that is not a valid SynthesisOutput
\* document, synthesize returns the degraded output (confidence LOW, no
\* hypotheses, empty supported_by, an open question naming the failure).
C18_MalformedDegrades ==
    (SynthesizerReturned /\ ~ValidSynthesisDoc(llm_result)) =>
        /\ synthesis = DegradedSynthesis
        /\ synthesis.confidence = "low"
        /\ synthesis.hypotheses = <<>>
        /\ DOMAIN synthesis.supported_by = {}
        /\ synthesis.open_questions = <<"System Error during synthesis">>

\* C19 as stated: when the audit call fails and generate hands verify its
\* failure value "{}", verify does not return PASS with ANSWERED.
C19_AuditCallFailure ==
    (pc = "verified" /\ audit = EmptyObject) =>
        ~(verification.status = "pass" /\ verification.final_outcome = "answered")

\* the largest element of a non-empty set of numbers
MaxOf(S) == CHOOSE x \in S : \A y \in S : y <= x

\* the number of records the current run call has appended
RunRecords == Len(execution_log.log) - Len(log_before.log)

\* the record of the k-th step of the current run call
RunRecord(k) == execution_log.log[Len(log_before.log) + k]

\* what id i maps to in the artifact map when the k-th step of the current
\* run call is executed: the output of the last earlier step of the call
\* with that id that stored one, else what the Executor held before the call
ArtifactBefore(k, i) ==
    LET js == {j \in 1..(k - 1) : plan[j].id = i /\ Truthy(RunRecord(j).output)}
    IN IF js # {} THEN RunRecord(MaxOf(js)).output
       ELSE IF i \in DOMAIN log_before.artifacts THEN log_before.artifacts[i]
       ELSE NoOutput

\* some declared input of the k-th step maps to a research artifact
HasResearchInput(k) ==
    \E i \in plan[k].inputs : ArtifactBefore(k, i).kind = "ResearchOutput"

\* C20: a COMPARE step is recorded SUCCESS (with a ComparisonOutput, from
\* execute_compare) if and only if at least one of its declared input ids maps
\* to a research artifact, ids that are absent or map to a comparison
\* artifact or a synthesis marker not counting; otherwise (a step without
\* inputs included) it is recorded ERROR with no output, no tool having been
\* called, and no record follows.
C20_CompareNeedsResearch ==
    \A k \in 1..RunRecords :
        plan[k].type = "compare" =>
            /\ RunRecord(k).step_id = plan[k].id
            /\ RunRecord(k).status = "success" <=> HasResearchInput(k)
            /\ RunRecord(k).status = "success" =>
                  /\ RunRecord(k).output.kind = "ComparisonOutput"
                  /\ k = RunRecords => tool_called = "execute_compare"
            /\ RunRecord(k).status # "success" =>
                  /\ RunRecord(k).status = "error"
                  /\ RunRecord(k).output = NoOutput
                  /\ k = RunRecords
                  /\ tool_called = None

\* C20 witness: a compare step over ids 1 and 2, where 1 maps to a research
\* artifact and 2 to a synthesis marker, was recorded SUCCESS.
C20_Witness ==
    /\ pc = "returned"
    /\ Len(plan) = 1
    /\ plan[1].type = "compare"
    /\ plan[1].inputs = {1, 2}
    /\ log_before.artifacts[1].kind = "ResearchOutput"
    /\ log_before.artifacts[2].kind = "str"
    /\ RunRecords = 1
    /\ RunRecord(1).status = "success"
    /\ tool_called = "execute_compare"

\* the step ids that have a SUCCESS record in the log
SuccessIds ==
    {execution_log.log[k].step_id :
        k \in {j \in 1..Len(execution_log.log) : execution_log.log[j].status = "success"}}

\* C21: after any sequence of step executions the keys of the artifact map
\* are exactly the step ids that have a SUCCESS record, every SUCCESS record
\* carries an output and no error, and every ERROR record has a null output
\* and a non-null error message; in a run on a fresh Executor no planned step
\* that failed or was not executed has an artifact.
C21_ArtifactsOfSuccess ==
    /\ DOMAIN execution_log.artifacts = SuccessIds
    /\ \A k \in 1..Len(execution_log.log) :
          LET rec == execution_log.log[k]
          IN /\ rec.status \in {"success", "error"}
             /\ rec.status = "success" => (rec.output # NoOutput /\ rec.error = None)
             /\ rec.status = "error" => (rec.output = NoOutput /\ rec.error # None)
    /\ log_before = NewExecutionLog =>
          \A j \in 1..Len(plan) :
              (\/ j > Len(execution_log.log)
               \/ execution_log.log[j].status = "error") =>
                  plan[j].id \notin DOMAIN execution_log.artifacts

\* C21 witness: a run on a fresh Executor whose first step succeeded and whose
\* second step failed; the only key of the artifact map is the first step's id.
C21_Witness ==
    /\ pc = "returned"
    /\ log_before = NewExecutionLog
    /\ Len(execution_log.log) = 2
    /\ execution_log.log[1].status = "success"
    /\ execution_log.log[2].status = "error"
    /\ DOMAIN execution_log.artifacts = {execution_log.log[1].step_id}
    /\ execution_log.log[2].step_id \notin DOMAIN execution_log.artifacts

\* C22: in STRESS_TEST mode no tool calls the LLM; every research record is
\* a SUCCESS carrying one of the three canned artifacts (empty,
\* contradictory, partial) with LOW confidence, every compare artifact is the
\* fixed ambiguous-data one, and the only ERROR records are those of compare
\* steps left without a research input, none coming from a collaborator.
C22_StressNoCollaborator ==
    /\ mode = "stress_test"
    /\ llm_called = FALSE
    /\ \A k \in 1..Len(execution_log.log) :
          LET rec == execution_log.log[k]
          IN /\ rec.output.kind = "ResearchOutput" =>
                   /\ rec.output.variant \in {"empty", "contradictory", "partial"}
                   /\ rec.output.confidence = "low"
             /\ rec.output.kind = "ComparisonOutput" =>
                   rec.output.variant = "ambiguous"
             /\ ~CollaboratorFailed(rec)
             /\ rec.status = "error" =>
                   rec.error = "ValueError: no valid ResearchOutput input"
    /\ \A k \in 1..RunRecords :
          /\ plan[k].type = "research" =>
                /\ RunRecord(k).status = "success"
                /\ RunRecord(k).output.kind = "ResearchOutput"
          /\ (plan[k].type = "compare" /\ HasResearchInput(k)) =>
                /\ RunRecord(k).status = "success"
                /\ RunRecord(k).output.kind = "ComparisonOutput"

\* C22 witness: in stress mode a research step returned the contradictory
\* artifact and the compare step over it the ambiguous-data artifact, the
\* LLM not having been called.
C22_Witness ==
    /\ mode = "stress_test"
    /\ pc = "returned"
    /\ RunRecords = 2
    /\ plan[1].type = "research"
    /\ plan[2].type = "compare"
    /\ RunRecord(1).output.variant = "contradictory"
    /\ RunRecord(1).output.confidence = "low"
    /\ RunRecord(2).status = "success"
    /\ RunRecord(2).output.variant = "ambiguous"
    /\ tool_called = "execute_compare"
    /\ llm_called = FALSE

\* C23: every VerificationOutput verify returns has status PASS, WARN or
\* FAIL and outcome ANSWERED or ABSTAINED; FAIL occurs only with ABSTAINED,
\* PASS only with ANSWERED, and ANSWERED always has a null abstention reason.
C23_StatusOutcomeConsistent ==
    pc = "verified" =>
        /\ verification.status \in {"pass", "warn", "fail"}
        /\ verification.final_outcome \in {"answered", "abstained"}
        /\ verification.status = "fail" => verification.final_outcome = "abstained"
        /\ verification.status = "pass" => verification.final_outcome = "answered"
        /\ verification.final_outcome = "answered" => verification.abstention_reason = None

\* C23 witness: a valid audit verdict recommended abstention although every
\* planned step is covered; verify returned WARN with ABSTAINED, not PASS.
C23_Witness ==
    /\ pc = "verified"
    /\ ValidVerdict
    /\ audit.recommend_abstain = "true"
    /\ audit.overclaim_detected = "false"
    /\ audit.confidence_adjustment = "none"
    /\ Len(plan) > 0
    /\ LackingSteps = 0
    /\ verification.status = "warn"
    /\ verification.final_outcome = "abstained"

\* C24: the no-steps-completed reason is produced only for a plan with zero
\* steps or with repeated step ids; for a plan with at least one step and
\* pairwise distinct ids, when no step succeeded and a valid audit does not
\* recommend abstention, the majority rule decides (FAIL, ABSTAINED, the
\* majority-of-steps-failed reason).
C24_NoStepsRuleShadowed ==
    pc = "verified" =>
        /\ verification.abstention_reason = ReasonNoSteps =>
              (Len(plan) = 0 \/ ~PairwiseDistinct(plan))
        /\ ( /\ Len(plan) >= 1
             /\ PairwiseDistinct(plan)
             /\ SuccessIds = {}
             /\ ValidVerdict
             /\ audit.recommend_abstain # "true" ) =>
              /\ verification.abstention_reason = ReasonMajority
              /\ verification.status = "fail"
              /\ verification.final_outcome = "abstained"

\* C24 witness: a two-step plan with distinct ids whose first step failed,
\* nothing having succeeded, and a valid audit that does not recommend
\* abstention; the reason is the majority one.
C24_Witness ==
    /\ pc = "verified"
    /\ Len(plan) = 2
    /\ PairwiseDistinct(plan)
    /\ validate_plan(plan)
    /\ SuccessIds = {}
    /\ Len(execution_log.log) = 1
    /\ ValidVerdict
    /\ audit.recommend_abstain = "false"
    /\ verification.abstention_reason = ReasonMajority

\* C25: for every plan validate_plan rejects, run on a fresh Executor and
\* followed by verify, the outcome is ABSTAINED and never ANSWERED, and the
\* status is never PASS, whatever the audit response.
C25_RejectedPlanAbstains ==
    ( /\ pc = "verified"
      /\ ~validate_plan(plan)
      /\ log_before = NewExecutionLog ) =>
        /\ execution_log = NewExecutionLog
        /\ verification.final_outcome = "abstained"
        /\ verification.final_outcome # "answered"
        /\ verification.status # "pass"
        /\ verification.status = "fail" \/ (ValidVerdict /\ audit.recommend_abstain = "true")

\* C25 witness: a rejected plan that repeats a step id, run on a fresh
\* Executor, with a clean audit verdict; verify returned FAIL / ABSTAINED
\* through the no-steps-completed rule.
C25_Witness ==
    /\ pc = "verified"
    /\ log_before = NewExecutionLog
    /\ Len(plan) = 2
    /\ plan[1].id = plan[2].id
    /\ ~validate_plan(plan)
    /\ ValidVerdict
    /\ audit.recommend_abstain = "false"
    /\ audit.overclaim_detected = "false"
    /\ audit.confidence_adjustment = "none"
    /\ verification.status = "fail"
    /\ verification.final_outcome = "abstained"
    /\ verification.abstention_reason = ReasonNoSteps

====
